---- MODULE Spec2Model ----
(***************************************************************************)
(* Agent kernel (backend/app/services/agent_kernel.py): the LLM + tool     *)
(* loop with human approval for edit_file and run_terminal.                *)
(*                                                                         *)
(* Text (Python str) is a sequence of one-character strings; an Optional   *)
(* value is None (the empty sequence) or Some(x) (the one-element          *)
(* sequence holding x).                                                    *)
(***************************************************************************)
EXTENDS Integers, Sequences, FiniteSets, TLC

VARIABLES
    context,    \* the caller's execution context: workspace_root, autonomous
    llm,        \* TRUE when _get_llm() returns a client
    fs,         \* the filesystem: absolute path -> content of the file
    pc,         \* "idle": no call in progress; "loop": inside run_loop's for
    entry,      \* the entry point of the current/last call: "run", "resume"
    input,      \* the messages argument of the current/last call
    approved,   \* resume only: Some([tool, args]) the caller approved
    current,    \* run_loop's working transcript
    turn,       \* run_loop's loop variable
    max_turns,  \* run_loop's budget in this call
    ret,        \* Some(tuple) returned by the last call that returned
    log,        \* model calls, dispatches, writes and spawns of this call
    steps,      \* turns reserved by the calls made so far
    at_call,    \* the files, the caller's transcript and the budget argument
                \* when the current/last call began
    probe       \* a pure function's arguments and result (SpecPath, ...)

vars == <<context, llm, fs, pc, entry, input, approved, current, turn,
          max_turns, ret, log, steps, at_call, probe>>

\* the variables of run_loop and of its caller
LoopVars == <<llm, pc, entry, input, approved, current, turn, max_turns, ret,
              log, steps, at_call>>

-----------------------------------------------------------------------------
(* Bounds *)

\* largest max_turns / max_turns_after a caller passes
MaxTurns == 2

\* turns a session may reserve in all (each call costs 1 + its budget)
MaxSteps == 4

\* longest relative path drawn for _safe_path
MaxPathLen == 5

-----------------------------------------------------------------------------
(* Optional values and Python str operations *)

None == << >>

Some(x) == <<x>>

IsNone(o) == o = None

Value(o) == o[1]

\* s.startswith(p)
StartsWith(s, p) ==
    /\ Len(p) <= Len(s)
    /\ SubSeq(s, 1, Len(p)) = p

\* s.find(sub) + 1: the 1-based index of the first occurrence, 0 when none
Find(s, sub) ==
    LET hits == {i \in 1..(Len(s) - Len(sub) + 1) : SubSeq(s, i, i + Len(sub) - 1) = sub}
    IN  IF hits = {} THEN 0 ELSE CHOOSE i \in hits : \A j \in hits : i <= j

\* sub in s
Contains(s, sub) == Find(s, sub) # 0

\* s.replace(old, new, 1)
Replace1(s, old, new) ==
    LET i == Find(s, old)
    IN  IF i = 0
        THEN s
        ELSE SubSeq(s, 1, i - 1) \o new \o SubSeq(s, i + Len(old), Len(s))

\* s.lstrip(ch)
RECURSIVE LStrip(_, _)
LStrip(s, ch) ==
    IF s # << >> /\ Head(s) = ch THEN LStrip(Tail(s), ch) ELSE s

\* s.split(ch): the list of the pieces between the separators
RECURSIVE Split(_, _)
Split(s, ch) ==
    LET seps == {i \in 1..Len(s) : s[i] = ch}
    IN  IF seps = {}
        THEN <<s>>
        ELSE LET i == CHOOSE k \in seps : \A j \in seps : k <= j
             IN  <<SubSeq(s, 1, i - 1)>> \o Split(SubSeq(s, i + 1, Len(s)), ch)

\* ch.join(parts)
RECURSIVE Join(_, _)
Join(parts, ch) ==
    IF parts = << >> THEN << >>
    ELSE IF Len(parts) = 1 THEN parts[1]
    ELSE parts[1] \o <<ch>> \o Join(Tail(parts), ch)

-----------------------------------------------------------------------------
(* os.path (posixpath) *)

Slash == "/"

Dot == <<".">>

DotDot == <<".", ".">>

\* the process's working directory, used by os.path.abspath
Cwd == <<"/", "w">>

\* os.path.isabs
isabs(p) == StartsWith(p, <<Slash>>)

\* os.path.join(a, b)
join(a, b) ==
    IF isabs(b) THEN b
    ELSE IF a = << >> \/ a[Len(a)] = Slash THEN a \o b
    ELSE a \o <<Slash>> \o b

\* the loop of posixpath.normpath over the components
RECURSIVE NormComps(_, _, _)
NormComps(comps, new_comps, initial_slashes) ==
    IF comps = << >> THEN new_comps
    ELSE LET comp == Head(comps)
             n == Len(new_comps)
         IN  IF comp = << >> \/ comp = Dot
             THEN NormComps(Tail(comps), new_comps, initial_slashes)
             ELSE IF \/ comp # DotDot
                     \/ (initial_slashes = 0 /\ n = 0)
                     \/ (n > 0 /\ new_comps[n] = DotDot)
             THEN NormComps(Tail(comps), Append(new_comps, comp), initial_slashes)
             ELSE IF n > 0
             THEN NormComps(Tail(comps), SubSeq(new_comps, 1, n - 1), initial_slashes)
             ELSE NormComps(Tail(comps), new_comps, initial_slashes)

\* os.path.normpath
normpath(path) ==
    IF path = << >> THEN Dot
    ELSE LET initial_slashes ==
                 IF ~StartsWith(path, <<Slash>>) THEN 0
                 ELSE IF StartsWith(path, <<Slash, Slash>>)
                         /\ ~StartsWith(path, <<Slash, Slash, Slash>>)
                 THEN 2 ELSE 1
             body == Join(NormComps(Split(path, Slash), << >>, initial_slashes), Slash)
             out == [i \in 1..initial_slashes |-> Slash] \o body
         IN  IF out = << >> THEN Dot ELSE out

\* os.path.abspath
abspath(path) ==
    IF isabs(path) THEN normpath(path) ELSE normpath(join(Cwd, path))

-----------------------------------------------------------------------------
(* Path sandbox *)

\* _safe_path(root, path)
safe_path(root, path) ==
    IF root = << >> THEN None
    ELSE LET full == normpath(join(root, LStrip(path, Slash)))
         IN  IF ~StartsWith(full, abspath(root)) THEN None ELSE Some(full)

-----------------------------------------------------------------------------
(* Workspace, tool arguments, tool results *)

Root == <<Slash, "r">>

\* a file of the workspace, and a file of a sibling directory of the root
InFile == Root \o <<Slash, "f">>

OutFile == <<Slash, "r", "x">>

Files == {InFile, OutFile}

\* the directories a process can be started in
Dirs == {Root}

\* the arguments of a tool call ("" where the model gave none); unknown tells
\* whether they also hold a name that no parameter of a handler has
Args(path, old_string, new_string, command, cwd, pattern) ==
    [path |-> path, old_string |-> old_string, new_string |-> new_string,
     command |-> command, cwd |-> cwd, pattern |-> pattern, unknown |-> FALSE]

\* args with one more name, such as "file"
WithUnknown(args) == [args EXCEPT !.unknown = TRUE]

NoArgs == Args(<< >>, << >>, << >>, << >>, << >>, << >>)

\* json.dumps({...}) of a tool: a fixed phrase, error-flagged or not
TextResult(error, text) ==
    [pending |-> FALSE, error |-> error, text |-> text, tool |-> "",
     args |-> NoArgs, preview |-> << >>, from |-> << >>, to |-> << >>]

\* {PENDING_APPROVAL_KEY: True, "tool", "args", "preview"[, "error"]}
PendingResult(tool, args, error, preview, from, to) ==
    [pending |-> TRUE, error |-> error, text |-> "", tool |-> tool,
     args |-> args, preview |-> preview, from |-> from, to |-> to]

\* open(full).read(): None when the open raises
ReadFile(files, full) ==
    IF full \in DOMAIN files THEN Some(files[full]) ELSE None

\* _tool_read_file
tool_read_file(ctx, files, path) ==
    LET root == ctx.workspace_root
        full == safe_path(root, path)
    IN  IF root = << >> THEN TextResult(TRUE, "Workspace not configured. Set workspace_root in context.")
        ELSE IF full = None THEN TextResult(TRUE, "Path outside workspace.")
        ELSE IF ReadFile(files, Value(full)) = None THEN TextResult(TRUE, "str(e)")
        ELSE TextResult(FALSE, "content")

\* _tool_list_dir
tool_list_dir(ctx, files, path) ==
    LET root == ctx.workspace_root
        full == safe_path(root, IF path = << >> THEN Dot ELSE path)
    IN  IF root = << >> THEN TextResult(TRUE, "Workspace not configured. Set workspace_root in context.")
        ELSE IF full = None THEN TextResult(TRUE, "Path outside workspace.")
        ELSE IF Value(full) \notin Dirs THEN TextResult(TRUE, "str(e)")
        ELSE TextResult(FALSE, "entries")

\* _tool_search_files
tool_search_files(ctx, files, pattern, path) ==
    LET root == ctx.workspace_root
        base_full == safe_path(root, IF path = << >> THEN Dot ELSE path)
    IN  IF root = << >> THEN TextResult(TRUE, "Workspace not configured. Set workspace_root in context.")
        ELSE IF base_full = None THEN TextResult(TRUE, "Path outside workspace.")
        ELSE IF pattern = << >> THEN TextResult(TRUE, "pattern is required.")
        ELSE TextResult(FALSE, "matches")

\* _tool_edit_file_preview: a pending approval; it writes nothing
tool_edit_file_preview(ctx, files, path, old_string, new_string) ==
    LET root == ctx.workspace_root
        args == Args(path, old_string, new_string, << >>, << >>, << >>)
        full == safe_path(root, path)
        cur == ReadFile(files, Value(full))
    IN  IF root = << >>
        THEN PendingResult("edit_file", args, TRUE, <<"Workspace not configured.">>, << >>, << >>)
        ELSE IF full = None
        THEN PendingResult("edit_file", args, TRUE, <<"Path outside workspace.">>, << >>, << >>)
        ELSE IF cur = None
        THEN PendingResult("edit_file", args, TRUE, <<"Cannot read file: e">>, << >>, << >>)
        ELSE IF ~Contains(Value(cur), old_string)
        THEN PendingResult("edit_file", args, TRUE,
                           <<"old_string not found in file (file may have changed).">>, << >>, << >>)
        ELSE PendingResult("edit_file", args, FALSE, <<"unified_diff">>,
                           Value(cur), Replace1(Value(cur), old_string, new_string))

\* mutant of tool_run_terminal_preview: the handler reports a result instead of
\* proposing
tool_run_terminal_direct(ctx, command, cwd) ==
    TextResult(FALSE, "returncode")

\* _tool_run_terminal_preview: a pending approval; it runs nothing
tool_run_terminal_preview(ctx, command, cwd) ==
    PendingResult("run_terminal", Args(<< >>, << >>, << >>, command, cwd, << >>),
                  FALSE, <<"Command: ">> \o command, << >>, cwd)

\* mutant of EditedContent: the last occurrence is replaced
EditedContentLast(content, old_string, new_string) ==
    LET hits == {i \in 1..(Len(content) - Len(old_string) + 1) :
                     SubSeq(content, i, i + Len(old_string) - 1) = old_string}
        i == CHOOSE k \in hits : \A j \in hits : j <= k
    IN  SubSeq(content, 1, i - 1) \o new_string
            \o SubSeq(content, i + Len(old_string), Len(content))

\* the new content _execute_edit_file writes for a file holding content
EditedContent(content, old_string, new_string) ==
    Replace1(content, old_string, new_string)

\* a lone surrogate such as "\ud800": json.loads yields it, utf-8 cannot
\* encode it
Surrogate == "^"

\* whether f.write(text) of a file opened with encoding="utf-8" succeeds
Encodable(text) == \A i \in DOMAIN text : text[i] # Surrogate

\* _execute_edit_file: the result, the files afterwards, whether it wrote;
\* open(full, "w") empties the file before f.write encodes the new content
execute_edit_file(ctx, files, path, old_string, new_string) ==
    LET full == safe_path(ctx.workspace_root, path)
        content == ReadFile(files, Value(full))
        same == [files |-> files, wrote |-> None]
    IN  IF full = None
        THEN [result |-> TextResult(TRUE, "Path outside workspace or workspace not set.")] @@ same
        ELSE IF content = None
        THEN [result |-> TextResult(TRUE, "str(e)")] @@ same
        ELSE IF ~Contains(Value(content), old_string)
        THEN [result |-> TextResult(TRUE, "old_string not found in file.")] @@ same
        ELSE IF ~Encodable(EditedContent(Value(content), old_string, new_string))
        THEN [result |-> TextResult(TRUE, "str(e)"),
              files |-> [files EXCEPT ![Value(full)] = << >>],
              wrote |-> full]
        ELSE [result |-> TextResult(FALSE, "updated"),
              files |-> [files EXCEPT ![Value(full)] =
                             EditedContent(Value(content), old_string, new_string)],
              wrote |-> full]

\* _execute_run_terminal: the result and the directory the process started in
execute_run_terminal(ctx, command, cwd) ==
    LET root == ctx.workspace_root
        sub == safe_path(root, cwd)
        run_cwd == IF cwd # << >> /\ sub # None THEN Value(sub) ELSE root
    IN  IF run_cwd \in Dirs
        THEN [result |-> TextResult(FALSE, "returncode"), spawned |-> Some(run_cwd)]
        ELSE [result |-> TextResult(TRUE, "str(e)"), spawned |-> None]

-----------------------------------------------------------------------------
(* Messages and model responses *)

\* a message {role, content}: content is a tuple of phrases; sentinel tells
\* whether "You are a helpful coding" occurs in it
Message(role, content, sentinel) ==
    [role |-> role, content |-> content, sentinel |-> sentinel]

\* the system prompt run_loop builds
SystemPrompt == Message("system", <<"You are a helpful coding and product assistant. ...">>, TRUE)

\* a user message; a user may type the sentinel text
UserMessage(sentinel) == Message("user", <<"user text">>, sentinel)

\* the CLI's message after the user declined a proposal
DeclinedMessage == Message("system", <<"User declined the tool call.">>, FALSE)

\* mutant of InvalidToolMessage: the valid names are left out
InvalidToolMessageBare(tool_name) ==
    Message("system", <<"[Invalid tool: ">> \o tool_name \o <<"]">>, FALSE)

InvalidToolMessage(tool_name) ==
    Message("system", <<"[Invalid tool: ">> \o tool_name \o <<". Valid: [...]]">>, FALSE)

ToolResultMessage(tool_name, result) ==
    Message("system", <<"[Tool ", tool_name, " result]: ", result.text>>, FALSE)

ApprovedMessage(approved_tool, result) ==
    Message("system", <<"[User approved ", approved_tool, ". Result]: ", result.text>>, FALSE)

\* the fixed replies of run_loop
NoLLMReply == <<"I don't have an LLM configured. Set OPENAI_API_KEY or ANTHROPIC_API_KEY.">>

NoResponseReply == <<"I couldn't generate a response. Check your LLM configuration.">>

FormatReply == <<"I didn't understand the response format.">>

ParseReply == <<"I couldn't parse my own response. Please try again.">>

TurnLimitReply == <<"I hit the turn limit. Please try a shorter conversation or rephrase.">>

RawReply == <<"raw[:1000]">>

\* s.strip() of a reply text
RECURSIVE RStrip(_, _)
RStrip(s, ch) ==
    IF s # << >> /\ s[Len(s)] = ch THEN RStrip(SubSeq(s, 1, Len(s) - 1), ch) ELSE s

Strip(s) == RStrip(LStrip(s, " "), " ")

\* the names get_default_tools registers (no CodeIQ workspace configured)
ToolNames == {"suggest_questions", "generate_app", "read_file", "list_dir",
              "search_files", "edit_file", "run_terminal"}

\* what _generate returned, by how run_loop parses it:
\*   "empty"    the empty string
\*   "text"     no '{', and neither "reply" nor "tool" in it
\*   "garbled"  no balanced object, but "reply" or "tool" in it
\*   "badjson"  a balanced span that json.loads rejects
\*   "json"     an object with reply, tool, args as given
Response(kind, reply, tool, args) ==
    [kind |-> kind, reply |-> reply, tool |-> tool, args |-> args]

Ok == <<"o", "k">>

Blank == <<" ">>

OldA == <<"a">>

OldZ == <<"z">>

NewB == <<"b">>

CmdLs == <<"l", "s", " ", "-", "l", "a">>

CmdRmRf == <<"r", "m", " ", "-", "r", "f", " ", "/">>

\* relative paths the model asks for: a file, a '..' escape, a sibling escape
AskPaths == {<<"f">>, <<".", ".", Slash, "x">>, <<".", ".", Slash, "r", "x">>}

Responses ==
    {Response(k, None, None, NoArgs) : k \in {"empty", "text", "garbled", "badjson"}}
    \cup {Response("json", Some(r), t, NoArgs) :
              r \in {Ok, Blank}, t \in {None, Some("edit_file")}}
    \cup {Response("json", None, t, NoArgs) : t \in {None, Some("bogus")}}
    \cup {Response("json", None, Some("read_file"), Args(p, << >>, << >>, << >>, << >>, << >>)) :
              p \in AskPaths}
    \cup {Response("json", None, Some(t), NoArgs) :
              t \in {"read_file", "list_dir", "search_files", "suggest_questions",
                     "generate_app"}}
    \cup {Response("json", None, Some("edit_file"), Args(p, o, NewB, << >>, << >>, << >>)) :
              p \in AskPaths, o \in {OldA, OldZ}}
    \cup {Response("json", None, Some("run_terminal"), Args(<< >>, << >>, << >>, c, << >>, << >>)) :
              c \in {CmdLs, CmdRmRf}}
    \cup {Response("json", None, Some(t), WithUnknown(NoArgs)) :
              t \in {"edit_file", "run_terminal", "search_files"}}

\* an entry of log
Event(op, what, text) == [op |-> op, what |-> what, text |-> text]

-----------------------------------------------------------------------------
(* run_loop and execute_pending_and_continue *)

\* mutant of InsertPrompt: the prompt is inserted without looking
InsertPromptAlways(messages) == <<SystemPrompt>> \o messages

\* current = list(messages), with the system prompt inserted when absent
InsertPrompt(messages) ==
    IF \/ messages = << >>
       \/ messages[1].role # "system"
       \/ ~messages[1].sentinel
    THEN <<SystemPrompt>> \o messages
    ELSE messages

\* the registered functions that take **kwargs
TakesKwargs == {"suggest_questions", "generate_app", "search_files"}

\* fn(context, **args) raises TypeError: a name the signature does not have,
\* or no path for _tool_read_file, whose path parameter has no default
Raises(tool_name, args) ==
    \/ args.unknown /\ tool_name \notin TakesKwargs
    \/ tool_name = "read_file" /\ args.path = << >>

\* mutant of Dispatch: the except clause loses the error
DispatchErrorDropped(ctx, files, tool_name, args) == TextResult(FALSE, "null")

\* fn(context, **args) of the registered tool, inside run_loop's try/except
Dispatch(ctx, files, tool_name, args) ==
    CASE Raises(tool_name, args) -> TextResult(TRUE, "str(e)")
      [] tool_name = "read_file" -> tool_read_file(ctx, files, args.path)
      [] tool_name = "list_dir" -> tool_list_dir(ctx, files, args.path)
      [] tool_name = "search_files" -> tool_search_files(ctx, files, args.pattern, args.path)
      [] tool_name = "edit_file" ->
             tool_edit_file_preview(ctx, files, args.path, args.old_string, args.new_string)
      [] tool_name = "run_terminal" -> tool_run_terminal_preview(ctx, args.command, args.cwd)
      [] tool_name = "suggest_questions" -> TextResult(FALSE, "questions")
      [] tool_name = "generate_app" -> TextResult(FALSE, "files")

\* the side effect of an edit_file or run_terminal that is executed:
\* the result, the files afterwards, and the write or spawn it made
Execute(ctx, files, tool_name, args) ==
    IF tool_name = "edit_file"
    THEN LET e == execute_edit_file(ctx, files, args.path, args.old_string, args.new_string)
         IN  [result |-> e.result, files |-> e.files,
              events |-> IF e.wrote = None THEN << >>
                         ELSE <<Event("write", "edit_file", Value(e.wrote))>>]
    ELSE LET r == execute_run_terminal(ctx, args.command, args.cwd)
         IN  [result |-> r.result, files |-> files,
              events |-> IF r.spawned = None THEN << >>
                         ELSE <<Event("spawn", "run_terminal", args.command)>>]

\* mutant of ExecutesInline: the autonomous flag is not consulted
ExecutesInlineAlways(ctx, tool_name) ==
    tool_name \in {"edit_file", "run_terminal"}

\* mutant of ExecutesInline: the loop asks for approval in every context
ExecutesInlineNever(ctx, tool_name) == FALSE

\* whether the loop runs a pending edit_file/run_terminal itself
ExecutesInline(ctx, tool_name) ==
    ctx.autonomous /\ tool_name \in {"edit_file", "run_terminal"}

\* an iteration that returns from run_loop
Returns(reply, pending, files, events) ==
    [done |-> TRUE, reply |-> reply, pending |-> pending, append |-> << >>,
     files |-> files, events |-> events]

\* an iteration that appends a message and goes on
Continues(message, files, events) ==
    [done |-> FALSE, reply |-> None, pending |-> None, append |-> <<message>>,
     files |-> files, events |-> events]

\* the log entry of a model call, by the class of its response
called(class) == <<Event("model", class, << >>)>>

\* one iteration of run_loop's for, on the model's response
Iteration(ctx, files, resp) ==
    CASE resp.kind = "empty" -> Returns(Some(NoResponseReply), None, files, called("empty"))
      [] resp.kind = "text" -> Returns(Some(RawReply), None, files, called("text"))
      [] resp.kind = "garbled" -> Returns(Some(FormatReply), None, files, called("garbled"))
      [] resp.kind = "badjson" -> Returns(Some(ParseReply), None, files, called("badjson"))
      [] resp.kind = "json" ->
             IF resp.reply # None /\ Value(resp.reply) # << >>
             THEN Returns(Some(Strip(Value(resp.reply))), None, files, called("reply"))
             ELSE IF resp.tool = None \/ Value(resp.tool) \notin ToolNames
             THEN Continues(InvalidToolMessage(resp.tool), files, called("invalid"))
             ELSE LET tool_name == Value(resp.tool)
                      result == Dispatch(ctx, files, tool_name, resp.args)
                      raised == IF Raises(tool_name, resp.args) THEN <<"raised">> ELSE << >>
                      evs == called("tool") \o <<Event("dispatch", tool_name, raised)>>
                  IN  IF ~result.pending
                      THEN Continues(ToolResultMessage(tool_name, result), files, evs)
                      ELSE IF ExecutesInline(ctx, tool_name)
                      THEN LET x == Execute(ctx, files, tool_name, result.args)
                           IN  Continues(ToolResultMessage(tool_name, x.result),
                                         x.files, evs \o x.events)
                      ELSE Returns(None, Some(result), files, evs)

\* mutant of Return: a proposal comes with an empty reply text
ReturnWithText(cur, reply, pending) ==
    /\ pc' = "idle"
    /\ current' = cur
    /\ ret' = Some(<<cur, IF reply = None THEN Some(<< >>) ELSE reply, pending>>)

\* return current, reply, pending
Return(cur, reply, pending) ==
    /\ pc' = "idle"
    /\ current' = cur
    /\ ret' = Some(<<cur, reply, pending>>)

\* mutant of NextTurn: an iteration that goes on does not use up a turn
NextTurnStuck(t) == t

\* mutant of NextTurn: the loop variable starts over after an iteration
NextTurnReset(t) == 0

\* the loop variable after an iteration that goes on
NextTurn(t) == t + 1

\* run_loop up to its first model call
EnterLoop(messages, budget) ==
    LET cur == InsertPrompt(messages)
    IN  /\ input' = messages
        /\ max_turns' = budget
        /\ turn' = 0
        /\ IF ~llm THEN Return(cur, Some(NoLLMReply), None)
           ELSE IF budget <= 0 THEN Return(cur, Some(TurnLimitReply), None)
           ELSE /\ pc' = "loop"
                /\ current' = cur
                /\ UNCHANGED ret

\* the transcript the caller holds: what the last call returned
Held == IF ret = None THEN << >> ELSE Value(ret)[1]

\* what the caller may append before calling run_loop
CallerMessages ==
    {UserMessage(FALSE), UserMessage(TRUE)}
    \cup (IF ret # None /\ Value(ret)[3] # None THEN {DeclinedMessage} ELSE {})

\* what a call finds when it begins
AtCall(files, messages, budget) ==
    [files |-> files, messages |-> messages, budget |-> budget]

NoCall == AtCall(<< >>, << >>, 0)

\* run_loop(messages, context, max_turns=budget)
Run(message, budget) ==
    /\ pc = "idle"
    /\ steps + 1 + budget <= MaxSteps
    /\ steps' = steps + 1 + budget
    /\ entry' = "run"
    /\ approved' = None
    /\ at_call' = AtCall(fs, Held, budget)
    /\ log' = << >>
    /\ EnterLoop(Append(Held, message), budget)
    /\ UNCHANGED <<context, llm, fs, probe>>

\* the loop of the call in progress, after an iteration with outcome it
Advance(it) ==
    /\ log' = log \o it.events
    /\ fs' = it.files
    /\ IF it.done THEN Return(current \o it.append, it.reply, it.pending) /\ UNCHANGED turn
       ELSE /\ turn' = NextTurn(turn)
            /\ IF turn' >= max_turns
               THEN Return(current \o it.append, Some(TurnLimitReply), None)
               ELSE /\ current' = current \o it.append
                    /\ UNCHANGED <<pc, ret>>

\* mutant of CallerList: current is the caller's list itself, not a copy
CallerListAliased(messages, cur) == cur

\* the caller's list after the loop changed current: current = list(messages)
\* is a copy, so the list the caller passed holds what it held
CallerList(messages, cur) == messages

\* one iteration of the loop of the call in progress
Turn(resp) ==
    /\ pc = "loop"
    /\ Advance(Iteration(context, fs, resp))
    /\ input' = CallerList(input, current')
    /\ UNCHANGED <<context, llm, entry, approved, max_turns, steps, at_call, probe>>

\* the approvals a caller submits: the pending one, or its own
Approvals ==
    (IF ret # None /\ Value(ret)[3] # None
     THEN {[tool |-> Value(Value(ret)[3]).tool, args |-> Value(Value(ret)[3]).args]}
     ELSE {})
    \cup {[tool |-> "edit_file", args |-> Args(<<"f">>, OldA, NewB, << >>, << >>, << >>)],
          [tool |-> "run_terminal", args |-> Args(<< >>, << >>, << >>, CmdLs, << >>, << >>)],
          [tool |-> "suggest_questions", args |-> NoArgs]}

\* mutant of ApprovedEffect: the approved tool is reported, not executed
ApprovedEffectSkipped(ctx, files, approval) ==
    [result |-> TextResult(FALSE, "updated"), files |-> files, events |-> << >>]

\* mutant of ApprovedEffect: the approved tool is executed, and once more
ApprovedEffectTwice(ctx, files, approval) ==
    LET once == Execute(ctx, files, approval.tool, approval.args)
        twice == Execute(ctx, once.files, approval.tool, approval.args)
    IN  [result |-> twice.result, files |-> twice.files,
         events |-> once.events \o twice.events]

\* mutant of ApprovedEffect: whatever was approved is executed
ApprovedEffectAny(ctx, files, approval) ==
    Execute(ctx, files, approval.tool, approval.args)

\* the side effect execute_pending_and_continue makes before the loop
ApprovedEffect(ctx, files, approval) ==
    IF approval.tool \in {"edit_file", "run_terminal"}
    THEN Execute(ctx, files, approval.tool, approval.args)
    ELSE [result |-> TextResult(TRUE, "Unknown tool"), files |-> files, events |-> << >>]

\* the approved side effect x, its message, then run_loop
Continue(approval, max_turns_after, x) ==
    /\ fs' = x.files
    /\ log' = x.events
    /\ EnterLoop(Append(Held, ApprovedMessage(approval.tool, x.result)), max_turns_after)

\* execute_pending_and_continue(messages, context, approved_tool, approved_args, max_turns_after)
Resume(approval, max_turns_after) ==
    /\ pc = "idle"
    /\ ret # None
    /\ steps + 1 + max_turns_after <= MaxSteps
    /\ steps' = steps + 1 + max_turns_after
    /\ entry' = "resume"
    /\ approved' = Some(approval)
    /\ at_call' = AtCall(fs, Held, max_turns_after)
    /\ Continue(approval, max_turns_after, ApprovedEffect(context, fs, approval))
    /\ UNCHANGED <<context, llm, probe>>

FileText == <<"a", "b", "a">>

NoProbe == [fn |-> "none"]

Init ==
    /\ context \in {[workspace_root |-> Root, autonomous |-> a] : a \in BOOLEAN}
    /\ llm \in BOOLEAN
    /\ fs = [p \in Files |-> FileText]
    /\ pc = "idle"
    /\ entry = "none"
    /\ input = << >>
    /\ approved = None
    /\ current = << >>
    /\ turn = 0
    /\ max_turns = 0
    /\ ret = None
    /\ log = << >>
    /\ steps = 0
    /\ at_call = NoCall
    /\ probe = NoProbe

Next ==
    \/ \E m \in CallerMessages, b \in 0..MaxTurns : Run(m, b)
    \/ \E r \in Responses : Turn(r)
    \/ \E a \in Approvals, b \in 0..MaxTurns : Resume(a, b)

Spec == Init /\ [][Next]_vars

-----------------------------------------------------------------------------
(* Command safety filter *)

RmRfSlash == <<"r", "m", " ", "-", "r", "f", " ", "/">>

RmRfHome == <<"r", "m", " ", "-", "r", "f", " ", "~">>

Curl == <<"c", "u", "r", "l">>

Wget == <<"w", "g", "e", "t">>

Sh == <<"s", "h">>

Bash == <<"b", "a", "s", "h">>

\* a '|' of command after position i whose right side, blanks skipped,
\* starts with sh or bash
PipesToShell(command, i) ==
    \E j \in (i + 1)..Len(command) :
        /\ command[j] = "|"
        /\ LET rest == LStrip(SubSeq(command, j + 1, Len(command)), " ")
           IN  StartsWith(rest, Sh) \/ StartsWith(rest, Bash)

\* mutant of is_command_blocked: only the delete patterns are on the list
is_command_blocked_delete_only(command) ==
    IF Contains(command, RmRfSlash) \/ Contains(command, RmRfHome)
    THEN Some("recursive force-delete of root or an unconfined path")
    ELSE None

\* _is_command_blocked(command): Some(reason) or None
is_command_blocked(command) ==
    IF Contains(command, RmRfSlash) \/ Contains(command, RmRfHome)
    THEN Some("recursive force-delete of root or an unconfined path")
    ELSE IF \/ (Contains(command, Curl) /\ PipesToShell(command, Find(command, Curl)))
            \/ (Contains(command, Wget) /\ PipesToShell(command, Find(command, Wget)))
    THEN Some("network fetch piped into a shell")
    ELSE None

-----------------------------------------------------------------------------
(* Properties of run_loop and execute_pending_and_continue, under Spec *)

\* the last call returned
Returned == pc = "idle" /\ entry # "none" /\ ret # None

Transcript == Value(ret)[1]

Reply == Value(ret)[2]

Pending == Value(ret)[3]

\* the positions of log holding an event of kind op
Positions(op) == {i \in DOMAIN log : log[i].op = op}

\* the model's response asked for edit_file or run_terminal in this call
AskedApproval ==
    \E i \in Positions("dispatch") : log[i].what \in {"edit_file", "run_terminal"}

\* ... and the handler was reached: the arguments fit its signature
ReachedHandler ==
    \E i \in Positions("dispatch") :
        log[i].what \in {"edit_file", "run_terminal"} /\ log[i].text = << >>

\* the call returned reply = null and a pending {tool, args, preview} for the
\* tool asked for last
Suspended ==
    /\ Returned
    /\ Reply = None
    /\ Pending # None
    /\ Value(Pending).pending
    /\ Value(Pending).tool = log[Len(log)].what
    /\ Value(Pending).preview # << >>
    /\ Transcript = current

C2_OnlyResumeExecutes ==
    ~context.autonomous =>
        \A i \in Positions("write") \cup Positions("spawn") :
            /\ entry = "resume"
            /\ i = 1
            /\ log[i].what = Value(approved).tool

C2_Witness ==
    /\ ~context.autonomous
    /\ Returned
    /\ entry = "run"
    /\ Len(log) = 4
    /\ log[2].what = "read_file"
    /\ log[4] = Event("dispatch", "run_terminal", << >>)
    /\ Pending # None
    /\ Value(Pending).args.command = CmdRmRf

\* every model call of the call so far asked for an unregistered tool
OnlyInvalid == \A i \in Positions("model") : log[i].what = "invalid"

\* C5: when the model only ever requests an unregistered tool name, run makes
\* one model call per turn, never more than max_turns, and returns after
\* exactly max_turns model calls with the turn-limit reply and pending = null.
C5_TurnBudget ==
    (entry = "run" /\ llm /\ OnlyInvalid) =>
        /\ Cardinality(Positions("model")) = IF pc = "loop" THEN turn ELSE max_turns
        /\ pc = "loop" => turn < max_turns
        /\ pc = "idle" =>
               /\ ret = Some(<<current, Some(TurnLimitReply), None>>)
               /\ Len(current) = Len(InsertPrompt(input)) + max_turns

C5_Witness ==
    /\ entry = "run"
    /\ llm
    /\ OnlyInvalid
    /\ Returned
    /\ max_turns = MaxTurns
    /\ Cardinality(Positions("model")) = MaxTurns
    /\ Reply = Some(TurnLimitReply)

\* msgs holds the system prompt once, first
OnePrompt(msgs) ==
    /\ msgs # << >>
    /\ msgs[1] = SystemPrompt
    /\ \A i \in 2..Len(msgs) : msgs[i] # SystemPrompt

\* C6: over run and resume calls that each get the transcript the previous
\* call returned plus appended messages, the transcript holds the system
\* prompt exactly once, at position 0, and a call on a transcript that has it
\* inserts nothing in front of its input.
C6_OnePrompt ==
    entry # "none" =>
        /\ OnePrompt(current)
        /\ ret # None => OnePrompt(Transcript)
        /\ (at_call.messages # << >>) =>
               /\ OnePrompt(at_call.messages)
               /\ SubSeq(current, 1, Len(input)) = input

C6_Witness ==
    /\ Returned
    /\ entry = "resume"
    /\ Len(at_call.messages) >= 3
    /\ at_call.messages[2] = UserMessage(TRUE)
    /\ Len(Transcript) = Len(at_call.messages) + 1
    /\ OnePrompt(Transcript)

\* C7: in an autonomous context run spawns a model-requested command only if
\* the command safety filter passes it.
C7_BlockedCommandNotSpawned ==
    (context.autonomous /\ entry = "run") =>
        \A i \in Positions("spawn") : is_command_blocked(log[i].text) = None

\* C9: without a model client run returns at once, with no model call and no
\* dispatch, the 'no LLM configured' reply, pending = null and the error code
\* no_llm_configured as fourth component.
C9_NoLLMErrorCode ==
    (Returned /\ entry = "run" /\ ~llm) =>
        /\ log = << >>
        /\ Reply = Some(NoLLMReply)
        /\ Pending = None
        /\ Len(Value(ret)) = 4
        /\ Value(ret)[4] = Some("no_llm_configured")

\* the approved edit of a resume call and the file it names
ApprovedArgs == Value(approved).args

ApprovedTarget == safe_path(context.workspace_root, ApprovedArgs.path)

\* old occurs in text at position i and nowhere before
FirstAt(text, old, i) ==
    /\ i \in 1..(Len(text) - Len(old) + 1)
    /\ SubSeq(text, i, i + Len(old) - 1) = old
    /\ \A j \in 1..(i - 1) : SubSeq(text, j, j + Len(old) - 1) # old

\* after is before with the occurrence of old at i replaced by new
ReplacedAt(before, after, old, new, i) ==
    after = SubSeq(before, 1, i - 1) \o new \o SubSeq(before, i + Len(old), Len(before))

\* resume was called for an edit_file whose old_string occurred in the file
ResumedEdit ==
    /\ entry = "resume"
    /\ Value(approved).tool = "edit_file"
    /\ ApprovedTarget # None
    /\ Value(ApprovedTarget) \in DOMAIN at_call.files
    /\ \E i \in 1..Len(at_call.files[Value(ApprovedTarget)]) + 1 :
           FirstAt(at_call.files[Value(ApprovedTarget)], ApprovedArgs.old_string, i)

\* C10: resume with an edit_file whose old_string occurs in the file makes the
\* edit before any model call, appends one system message recording the result
\* to the given transcript, runs the loop on it with budget max_turns_after,
\* and when the next model turn is a reply returns it with a transcript longer
\* than the one given.
C10_ResumeEdit ==
    ResumedEdit =>
        /\ log # << >>
        /\ log[1] = Event("write", "edit_file", Value(ApprovedTarget))
        /\ Positions("write") = {1} =>
               \E i \in 1..Len(at_call.files[Value(ApprovedTarget)]) + 1 :
                   /\ FirstAt(at_call.files[Value(ApprovedTarget)], ApprovedArgs.old_string, i)
                   /\ ReplacedAt(at_call.files[Value(ApprovedTarget)], fs[Value(ApprovedTarget)],
                                 ApprovedArgs.old_string, ApprovedArgs.new_string, i)
        /\ Len(input) = Len(at_call.messages) + 1
        /\ SubSeq(input, 1, Len(at_call.messages)) = at_call.messages
        /\ input[Len(input)] = ApprovedMessage("edit_file", TextResult(FALSE, "updated"))
        /\ input[Len(input)].role = "system"
        /\ SubSeq(current, 1, Len(input)) = input
        /\ max_turns = at_call.budget
        /\ (pc = "idle" /\ Len(log) = 2 /\ log[2] = Event("model", "reply", << >>)) =>
               /\ ret = Some(<<current, Reply, None>>)
               /\ Reply \in {Some(Strip(r)) : r \in {Ok, Blank}}
               /\ Len(Transcript) > Len(at_call.messages)

C10_Witness ==
    /\ ResumedEdit
    /\ Returned
    /\ ~context.autonomous
    /\ log = <<Event("write", "edit_file", InFile), Event("model", "reply", << >>)>>
    /\ Reply = Some(Ok)
    /\ fs[InFile] = <<"b", "b", "a">>

-----------------------------------------------------------------------------
(* SpecPath: _safe_path applied to drawn roots and relative paths *)

PathChars == {Slash, ".", "r", "e"}

\* every text over PathChars of at most n characters
RECURSIVE Texts(_, _)
Texts(chars, n) ==
    IF n = 0 THEN {<< >>}
    ELSE LET shorter == Texts(chars, n - 1)
         IN  shorter \cup {Append(t, c) : t \in {u \in shorter : Len(u) = n - 1}, c \in chars}

Roots == {<< >>, <<"r">>, Root, <<Slash, "r", Slash>>, <<Slash, "r", Slash, "e">>, <<Slash>>}

\* the variables of the loop, at rest
AtRest ==
    /\ llm = FALSE
    /\ pc = "idle"
    /\ entry = "none"
    /\ input = << >>
    /\ approved = None
    /\ current = << >>
    /\ turn = 0
    /\ max_turns = 0
    /\ ret = None
    /\ log = << >>
    /\ steps = 0
    /\ at_call = NoCall

InitPath ==
    /\ context = [workspace_root |-> << >>, autonomous |-> FALSE]
    /\ fs = [p \in Files |-> FileText]
    /\ AtRest
    /\ \E root \in Roots, path \in Texts(PathChars, MaxPathLen) :
           probe = [fn |-> "args", root |-> root, path |-> path, out |-> None]

Resolve ==
    /\ probe.fn = "args"
    /\ probe' = [probe EXCEPT !.fn = "safe_path", !.out = safe_path(probe.root, probe.path)]
    /\ UNCHANGED <<context, fs, LoopVars>>

NextPath == Resolve

SpecPath == InitPath /\ [][NextPath]_vars

\* the non-empty components of a path
Components(p) == SelectSeq(Split(p, Slash), LAMBDA c : c # << >>)

\* a is a component-wise prefix of b
IsPrefix(a, b) == Len(a) <= Len(b) /\ SubSeq(b, 1, Len(a)) = a

\* C3: resolve gives null for an empty or relative root; a non-null result has
\* the normalized root as a component-wise prefix (no '..' or sibling escape);
\* every path under the root is returned as its normalized absolute form.
C3_PathConfinement ==
    probe.fn = "safe_path" =>
        LET root == probe.root
            out == probe.out
            full == normpath(join(root, LStrip(probe.path, Slash)))
        IN  /\ (root = << >> \/ ~isabs(root)) => out = None
            /\ out # None =>
                   IsPrefix(Components(normpath(root)), Components(Value(out)))
            /\ (isabs(root) /\ IsPrefix(Components(normpath(root)), Components(full)))
                   => out = Some(full)

-----------------------------------------------------------------------------
(* SpecFilter: _is_command_blocked applied to drawn commands *)

\* how a drawn command starts
CommandHeads ==
    {<<"r", "m", " ", "-", "r", "f", " ", "/">>,
     <<"r", "m", " ", "-", "r", "f", " ", "/", "f", "o", "o">>,
     <<"r", "m", " ", "-", "r", "f", " ", "~">>,
     <<"r", "m", " ", "-", "r", " ", "f">>,
     <<"c", "u", "r", "l", " ", "x">>,
     <<"c", "u", "r", "l", " ", "h", "t", "t", "p", ":", "/", "/", "x">>,
     <<"w", "g", "e", "t", " ", "x">>,
     <<"l", "s", " ", "-", "l", "a">>,
     <<"n", "p", "m", " ", "i", "n", "s", "t", "a", "l", "l">>,
     <<"e", "c", "h", "o", " ", "s", "h">>,
     <<"c", "a", "t", " ", "x">>}

\* how a drawn command goes on
CommandTails ==
    {<<>>,
     <<" ", "|", " ", "s", "h">>,
     <<" ", "|", " ", "b", "a", "s", "h">>,
     <<"|", "s", "h">>,
     <<" ", "|", " ", "c", "a", "t">>,
     <<" ", "&", "&", " ", "l", "s", " ", "-", "l", "a">>,
     <<" ", ">", " ", "s", "h">>}

InitFilter ==
    /\ context = [workspace_root |-> Root, autonomous |-> TRUE]
    /\ fs = [p \in Files |-> FileText]
    /\ AtRest
    /\ \E h \in CommandHeads, t \in CommandTails :
           probe = [fn |-> "args", head |-> h, command |-> h \o t, out |-> None]

Filter ==
    /\ probe.fn = "args"
    /\ probe' = [probe EXCEPT !.fn = "is_command_blocked",
                              !.out = is_command_blocked(probe.command)]
    /\ UNCHANGED <<context, fs, LoopVars>>

NextFilter == Filter

SpecFilter == InitFilter /\ [][NextFilter]_vars

\* C8: isBlocked gives a reason for a recursive force-delete of the root or
\* of an unconfined path (rm -rf /, rm -rf /foo) and for a network fetch piped
\* into a shell (curl x | sh, curl http://x | sh), and null for the harmless
\* ls -la and npm install.
C8_CommandFilter ==
    probe.fn = "is_command_blocked" =>
        /\ probe.head \in {<<"r", "m", " ", "-", "r", "f", " ", "/">>,
                           <<"r", "m", " ", "-", "r", "f", " ", "/", "f", "o", "o">>} => probe.out # None
        /\ probe.command \in {<<"c", "u", "r", "l", " ", "x", " ", "|", " ", "s", "h">>,
                              <<"c", "u", "r", "l", " ", "h", "t", "t", "p", ":", "/", "/", "x", " ", "|", " ", "s", "h">>}
               => probe.out # None
        /\ probe.command \in {<<"l", "s", " ", "-", "l", "a">>,
                              <<"n", "p", "m", " ", "i", "n", "s", "t", "a", "l", "l">>}
               => probe.out = None

C8_Witness ==
    /\ probe.fn = "is_command_blocked"
    /\ probe.command = <<"c", "u", "r", "l", " ", "h", "t", "t", "p", ":", "/", "/", "x", " ", "|", " ", "s", "h">>
    /\ probe.out # None

-----------------------------------------------------------------------------
(* SpecEdit: _execute_edit_file applied to drawn contents and arguments *)

EditChars == {"a", "b"}

\* longest file content drawn
MaxContentLen == 3

\* longest old_string and new_string drawn
MaxArgLen == 2

\* relative paths of an edit: the file, no file, a '..' escape, the sibling
EditPaths == AskPaths \cup {<<"g">>}

InitEdit ==
    /\ context = [workspace_root |-> Root, autonomous |-> FALSE]
    /\ \E c \in Texts(EditChars, MaxContentLen) : fs = [p \in Files |-> c]
    /\ AtRest
    /\ \E p \in EditPaths, o \in Texts(EditChars, MaxArgLen), n \in Texts(EditChars, MaxArgLen) :
           probe = [fn |-> "args", path |-> p, old_string |-> o, new_string |-> n,
                    before |-> << >>, result |-> TextResult(FALSE, ""), wrote |-> None]

\* the state after _execute_edit_file returned e
Edited(e) ==
    /\ fs' = e.files
    /\ probe' = [probe EXCEPT !.fn = "execute_edit_file", !.before = fs,
                              !.result = e.result, !.wrote = e.wrote]

ExecuteEdit ==
    /\ probe.fn = "args"
    /\ Edited(execute_edit_file(context, fs, probe.path, probe.old_string, probe.new_string))
    /\ UNCHANGED <<context, LoopVars>>

NextEdit == ExecuteEdit

SpecEdit == InitEdit /\ [][NextEdit]_vars

\* the file an edit names, when _safe_path lets it through and it can be read
EditTarget == safe_path(context.workspace_root, probe.path)

-----------------------------------------------------------------------------
(* The shape of the result, under Spec *)

\* C11: every return of run and of resume is a result of four components
\* (messages, reply, pending, errorCode), so a caller that destructures four
\* components succeeds on every outcome.
C11_FourComponents ==
    \A call \in {"run", "resume"} :
        (Returned /\ entry = call) => Len(Value(ret)) = 4

-----------------------------------------------------------------------------
(* Side effects per approval, under Spec *)

\* the writes and spawns of the call
Effects == Positions("write") \cup Positions("spawn")

\* the writes and spawns of the call made for no request of the model: no
\* dispatch comes just before them
Unrequested == {i \in Effects : i = 1 \/ log[i - 1].op # "dispatch"}

\* the approved action of a resume call can be carried out: an edit whose
\* old_string occurs in the file, or a command
Executable ==
    \/ ResumedEdit
    \/ Value(approved).tool = "run_terminal" /\ context.workspace_root \in Dirs

\* C12: a resume call carries out the approved write or spawn at most once,
\* before its loop, and exactly once when the action can be carried out; the
\* turns that follow in the same call make no further write or spawn, except,
\* in an autonomous context, those the model itself requests in a later turn.
C12_OncePerApproval ==
    entry = "resume" =>
        /\ Unrequested \subseteq {1}
        /\ Executable =>
               /\ Unrequested = {1}
               /\ log[1].what = Value(approved).tool
        /\ ~context.autonomous => Effects = Unrequested
        /\ \A i \in Effects \ Unrequested :
               log[i - 1] = Event("dispatch", log[i].what, << >>)

C12_Witness ==
    /\ Returned
    /\ entry = "resume"
    /\ ~context.autonomous
    /\ Value(approved).tool = "edit_file"
    /\ log # << >>
    /\ log[1] = Event("write", "edit_file", InFile)
    /\ Cardinality(Positions("model")) = 2
    /\ Effects = {1}
    /\ Reply = Some(Ok)

-----------------------------------------------------------------------------
(* SpecHandler: one call fn(context, **args) of a registered handler *)

\* the handlers that work on the workspace
WorkspaceTools == {"read_file", "list_dir", "search_files", "edit_file", "run_terminal"}

\* the paths of a call: none, the file, no file, a '..' escape, the sibling
HandlerPaths == EditPaths \cup {<< >>}

InitHandler ==
    /\ context \in {[workspace_root |-> r, autonomous |-> FALSE] : r \in {<< >>, Root}}
    /\ fs = [p \in Files |-> FileText]
    /\ AtRest
    /\ \E t \in WorkspaceTools, p \in HandlerPaths, o \in {<< >>, OldA, OldZ},
          c \in {<< >>, CmdLs}, u \in BOOLEAN :
           probe = [fn |-> "args", tool |-> t,
                    args |-> [Args(p, o, NewB, c, << >>, o) EXCEPT !.unknown = u],
                    raised |-> FALSE, result |-> TextResult(FALSE, "")]

\* fn(context, **args): whether it raised, and what it returned otherwise
Call ==
    /\ probe.fn = "args"
    /\ probe' = [probe EXCEPT !.fn = "call",
                              !.raised = Raises(probe.tool, probe.args),
                              !.result = Dispatch(context, fs, probe.tool, probe.args)]
    /\ UNCHANGED <<context, fs, LoopVars>>

NextHandler == Call

SpecHandler == InitHandler /\ [][NextHandler]_vars

\* where the path of the call leads, by the rules of os.path
Target == normpath(join(context.workspace_root, LStrip(probe.args.path, Slash)))

\* the call is one of the expected failure modes of a handler that takes a
\* path: no workspace, a path outside the root, a file that does not exist,
\* an argument left out
ExpectedFailure ==
    /\ probe.tool # "run_terminal"
    /\ \/ context.workspace_root = << >>
       \/ ~IsPrefix(Components(context.workspace_root), Components(Target))
       \/ probe.tool \in {"read_file", "edit_file"} /\ Target \notin DOMAIN fs
       \/ probe.tool \in {"read_file", "edit_file"} /\ probe.args.path = << >>
       \/ probe.tool = "search_files" /\ probe.args.pattern = << >>

\* C13: a call of read_file, list_dir, search_files, edit_file or run_terminal
\* in an expected failure mode (missing file, path outside the root, unset
\* workspace, missing argument) does not raise: it returns an error result.
C13_HandlersDoNotRaise ==
    (probe.fn = "call" /\ ~probe.args.unknown) =>
        /\ ~probe.raised
        /\ ExpectedFailure => probe.result.error

-----------------------------------------------------------------------------
(* Handler failures and invalid tools, under Spec *)

\* this step is an iteration of the loop whose handler raised
RaisedStep ==
    /\ pc = "loop"
    /\ Len(log') = Len(log) + 2
    /\ log'[Len(log')].op = "dispatch"
    /\ log'[Len(log')].text = <<"raised">>

\* this step went on to the next turn, or returned at the turn limit
WentOn ==
    \/ /\ turn + 1 < max_turns
       /\ pc' = "loop"
       /\ turn' = turn + 1
       /\ ret' = ret
    \/ /\ turn + 1 >= max_turns
       /\ pc' = "idle"
       /\ ret' = Some(<<current', Some(TurnLimitReply), None>>)

\* C14: when a dispatched handler raises, run appends the {error: message}
\* result to the transcript as the result of that tool and goes on with the
\* next turn; the failure ends the loop only through the turn limit, and
\* nothing propagates to the caller.
C14_HandlerFailureContinues ==
    [][RaisedStep =>
           /\ current' = current \o
                  <<ToolResultMessage(log'[Len(log')].what, TextResult(TRUE, "str(e)"))>>
           /\ fs' = fs
           /\ WentOn]_vars

C14_Witness ==
    /\ pc = "loop"
    /\ turn = 1
    /\ log # << >>
    /\ log[Len(log)] = Event("dispatch", "read_file", <<"raised">>)
    /\ current[Len(current)] = ToolResultMessage("read_file", TextResult(TRUE, "str(e)"))

-----------------------------------------------------------------------------
(* SpecRegistry: get_default_tools applied to drawn contexts *)

\* a or b, on strings
Or(a, b) == IF a # "" THEN a ELSE b

\* the values of a workspace setting: unset or empty, blanks, an existing
\* directory, a path that is no directory; and its strip()
WorkspaceSettings == {"", " ", "dir", "nodir"}

StripSetting(w) == IF w = " " THEN "" ELSE w

\* os.path.isdir
isdir(w) == w = "dir"

\* _get_codeiq_tools(context), with os.environ.get("CODEIQ_WORKSPACE") = env
get_codeiq_tools(ctx, env) ==
    IF ctx.codeiq_enabled = "False" THEN << >>
    ELSE LET workspace == StripSetting(Or(Or(ctx.codeiq_workspace, env), ""))
         IN  IF workspace = "" \/ ~isdir(workspace) THEN << >>
             ELSE <<"search_code", "analyze_code">>

\* get_default_tools(context): the names of the tools, in order
get_default_tools(ctx, env) ==
    <<"suggest_questions", "generate_app", "read_file", "list_dir", "search_files",
      "edit_file", "run_terminal">> \o get_codeiq_tools(ctx, env)

\* the loop state plays no part: any context of the loop, with the settings
InitRegistry ==
    /\ context \in {[workspace_root |-> r, autonomous |-> a] :
                        r \in {<< >>, Root}, a \in BOOLEAN}
    /\ fs = [p \in Files |-> FileText]
    /\ AtRest
    /\ \E e \in {"unset", "True", "False"}, w \in WorkspaceSettings, env \in WorkspaceSettings :
           probe = [fn |-> "args", codeiq_enabled |-> e, codeiq_workspace |-> w,
                    env |-> env, names |-> << >>]

Registry ==
    /\ probe.fn = "args"
    /\ probe' = [probe EXCEPT !.fn = "get_default_tools",
                              !.names = get_default_tools(probe, probe.env)]
    /\ UNCHANGED <<context, fs, LoopVars>>

NextRegistry == Registry

SpecRegistry == InitRegistry /\ [][NextRegistry]_vars

\* the names of the registry, as a set
Registered == {probe.names[i] : i \in DOMAIN probe.names}

\* C15: for every context the registry holds read_file, list_dir,
\* search_files, suggest_fix, edit_file, run_terminal, suggest_questions and
\* generate_app under unique names; search_code and analyze_code are there
\* only when CodeIQ is enabled and its workspace is a directory, never when
\* codeiq_enabled is false.
C15_Registry ==
    probe.fn = "get_default_tools" =>
        /\ {"read_file", "list_dir", "search_files", "suggest_fix", "edit_file",
            "run_terminal", "suggest_questions", "generate_app"} \subseteq Registered
        /\ Cardinality(Registered) = Len(probe.names)
        /\ probe.codeiq_enabled = "False" =>
               Registered \cap {"search_code", "analyze_code"} = {}
        /\ Registered \cap {"search_code", "analyze_code"} # {} =>
               isdir(Or(probe.codeiq_workspace, probe.env))

-----------------------------------------------------------------------------
(* SpecPreview: _tool_edit_file_preview applied to drawn contents and arguments *)

InitPreview ==
    /\ context \in {[workspace_root |-> r, autonomous |-> FALSE] : r \in {<< >>, Root}}
    /\ \E c \in Texts(EditChars, MaxContentLen) : fs = [p \in Files |-> c]
    /\ AtRest
    /\ \E p \in EditPaths, o \in Texts(EditChars, MaxArgLen), n \in Texts(EditChars, MaxArgLen) :
           probe = [fn |-> "args", path |-> p, old_string |-> o, new_string |-> n,
                    before |-> << >>, result |-> TextResult(FALSE, "")]

\* the handler returns its proposal; it has no statement that writes
Preview ==
    /\ probe.fn = "args"
    /\ probe' = [probe EXCEPT !.fn = "edit_file_preview", !.before = fs,
                              !.result = tool_edit_file_preview(context, fs, probe.path,
                                             probe.old_string, probe.new_string)]
    /\ UNCHANGED <<context, fs, LoopVars>>

NextPreview == Preview

SpecPreview == InitPreview /\ [][NextPreview]_vars

\* where the path of the proposal leads, by the rules of os.path
PreviewTarget == normpath(join(context.workspace_root, LStrip(probe.path, Slash)))

\* C16: when the target of a proposed edit cannot be read, lies outside the
\* root or does not contain old_string, the edit_file handler returns a
\* proposal with error = true and a message as preview, and writes nothing;
\* otherwise it returns a proposal without the error flag whose preview is the
\* diff of replacing the first occurrence of old_string.
C16_EditPreconditions ==
    probe.fn = "edit_file_preview" =>
        LET r == probe.result
            outside == ~IsPrefix(Components(context.workspace_root), Components(PreviewTarget))
            unreadable == PreviewTarget \notin DOMAIN fs
            absent == ~(\E i \in 1..Len(fs[PreviewTarget]) + 1 :
                            FirstAt(fs[PreviewTarget], probe.old_string, i))
        IN  /\ fs = probe.before
            /\ r.pending
            /\ r.tool = "edit_file"
            /\ r.preview # << >>
            /\ (context.workspace_root = << >> \/ outside \/ unreadable \/ absent) =>
                   /\ r.error
                   /\ r.preview # <<"unified_diff">>
            /\ ~(context.workspace_root = << >> \/ outside \/ unreadable \/ absent) =>
                   /\ ~r.error
                   /\ r.preview = <<"unified_diff">>
                   /\ r.from = fs[PreviewTarget]
                   /\ \E i \in 1..Len(r.from) + 1 :
                          /\ FirstAt(r.from, probe.old_string, i)
                          /\ ReplacedAt(r.from, r.to, probe.old_string, probe.new_string, i)

-----------------------------------------------------------------------------
(* The turn budget for every model behaviour, under Spec *)

\* the class of the last model call of the call
LastCalled == log[CHOOSE i \in Positions("model") : \A j \in Positions("model") : j <= i].what

\* the classes of response on which run_loop returns a reply
ReplyClasses == {"empty", "text", "garbled", "badjson", "reply"}

\* the calls and dispatches of a call stay within its budget, and a call that
\* ended with neither a reply of the model nor a pending approval used the
\* whole budget and returned the turn-limit message
WithinBudget ==
    entry # "none" =>
        /\ Cardinality(Positions("model")) <= max_turns
        /\ Cardinality(Positions("dispatch")) <= max_turns
        /\ pc = "loop" =>
               /\ turn < max_turns
               /\ Cardinality(Positions("model")) = turn
        /\ (Returned /\ llm) =>
               \/ Positions("model") # {} /\ LastCalled \in ReplyClasses /\ Pending = None
               \/ Pending # None /\ Reply = None
               \/ /\ Cardinality(Positions("model")) = max_turns
                  /\ ret = Some(<<current, Some(TurnLimitReply), None>>)

\* a step taken inside the loop returns or uses up one turn of the budget
UsesTurn ==
    pc = "loop" =>
        \/ pc' = "idle"
        \/ pc' = "loop" /\ turn' = turn + 1 /\ max_turns' = max_turns

\* a call that returned makes no further model call: the next model call
\* belongs to a new call of run or resume
NoRetry ==
    (pc = "idle" /\ pc' = "idle") => Positions("model")' = {}

InvalidStep ==
    /\ pc = "loop"
    /\ Len(log') = Len(log) + 1
    /\ log'[Len(log')] = Event("model", "invalid", << >>)

\* the corrective messages: "[Invalid tool: X. Valid: [names]]"
Corrective ==
    {Message("system", <<"[Invalid tool: ">> \o t \o <<". Valid: [...]]">>, FALSE) :
         t \in {None, Some("bogus")}}

\* C18: when the model's JSON object names no tool or an unregistered one,
\* run dispatches no handler, appends one corrective system message listing
\* the valid names, uses up one turn and goes on with the next model call (or
\* returns the turn-limit message when that turn was the last).
C18_InvalidToolContinues ==
    [][InvalidStep =>
           /\ Len(current') = Len(current) + 1
           /\ SubSeq(current', 1, Len(current)) = current
           /\ current'[Len(current')] \in Corrective
           /\ Positions("dispatch")' = Positions("dispatch")
           /\ fs' = fs
           /\ WentOn]_vars

C18_Witness ==
    /\ pc = "loop"
    /\ turn = 1
    /\ log = <<Event("model", "invalid", << >>)>>
    /\ current[Len(current)] \in Corrective
    /\ current[Len(current)].content[2] = "bogus"

-----------------------------------------------------------------------------
(* The transcript of a call, under Spec *)

\* the messages a call added after its input (and the system prompt)
Added == SubSeq(current, Len(InsertPrompt(input)) + 1, Len(current))

\* C19: when run returns a pending approval, the returned transcript holds no
\* result of the proposed tool and no proposal as data: the iteration that
\* proposed appended one short system message, a marker naming the proposal,
\* and nothing else.
C19_PendingMarker ==
    (Returned /\ Pending # None) =>
        /\ Transcript = current
        /\ Len(Added) = Cardinality(Positions("model"))
        /\ Added # << >>
        /\ Added[Len(Added)].role = "system"
        /\ Value(Pending).tool \in {Added[Len(Added)].content[i] :
                                        i \in DOMAIN Added[Len(Added)].content}
        /\ Added[Len(Added)] \notin
               {ToolResultMessage(Value(Pending).tool, TextResult(e, t)) :
                    e \in BOOLEAN, t \in {"updated", "returncode", "str(e)"}}


\* what the iterations of the call appended, in order, read off the log: ""
\* for a corrective message, the tool's name for a tool result
RECURSIVE Appends(_)
Appends(l) ==
    IF l = << >> THEN << >>
    ELSE IF Head(l) = Event("model", "invalid", << >>) THEN <<"">> \o Appends(Tail(l))
    ELSE IF Head(l).op = "dispatch" THEN <<Head(l).what>> \o Appends(Tail(l))
    ELSE Appends(Tail(l))

\* ... without the dispatch that ended the call with a pending approval
Completed ==
    IF Returned /\ Pending # None
    THEN SubSeq(Appends(log), 1, Len(Appends(log)) - 1)
    ELSE Appends(log)

\* C20: the transcript of a call is its input, in order and unchanged, after
\* the system prompt when that was absent, followed by one system message per
\* completed tool dispatch that did not end in a pending approval
\* ("[Tool X result]: ...") or per invalid tool (the corrective message), in
\* the order of the dispatches; the list the caller passed is not changed.
C20_AppendOnly ==
    entry # "none" =>
        /\ InsertPrompt(input) \in {input, <<SystemPrompt>> \o input}
        /\ SubSeq(current, 1, Len(InsertPrompt(input))) = InsertPrompt(input)
        /\ Len(Added) = Len(Completed)
        /\ \A k \in DOMAIN Added :
               /\ Added[k].role = "system"
               /\ IF Completed[k] = ""
                  THEN Added[k] \in Corrective
                  ELSE SubSeq(Added[k].content, 1, 3) = <<"[Tool ", Completed[k], " result]: ">>
        /\ Returned => Transcript = current
        /\ entry = "run" =>
               /\ Len(input) = Len(at_call.messages) + 1
               /\ SubSeq(input, 1, Len(at_call.messages)) = at_call.messages
               /\ input[Len(input)] \in {UserMessage(FALSE), UserMessage(TRUE), DeclinedMessage}

C20_Witness ==
    /\ Returned
    /\ entry = "run"
    /\ max_turns = MaxTurns
    /\ Len(at_call.messages) = 0
    /\ Completed = <<"", "read_file">>
    /\ Len(Transcript) = 4
    /\ Transcript[1] = SystemPrompt
    /\ Transcript[2] = input[1]
    /\ Transcript[4] = ToolResultMessage("read_file", TextResult(FALSE, "content"))

-----------------------------------------------------------------------------
(* Inline execution in an autonomous context, under Spec *)

\* this step is an iteration, in an autonomous context, whose response asked
\* for edit_file with arguments the handler takes
InlineEditStep ==
    /\ pc = "loop"
    /\ context.autonomous
    /\ Len(log') >= Len(log) + 2
    /\ log'[Len(log) + 2] = Event("dispatch", "edit_file", << >>)

\* the error results of _execute_edit_file
EditErrors ==
    {TextResult(TRUE, t) : t \in {"Path outside workspace or workspace not set.",
                                  "str(e)", "old_string not found in file."}}

\* exactly the file at full changed, by replacing the first occurrence of an
\* old_string the model may name with its new_string
FirstReplaced(full) ==
    /\ full \in DOMAIN fs
    /\ \A other \in DOMAIN fs \ {full} : fs'[other] = fs[other]
    /\ \E old \in {OldA, OldZ} : \E i \in 1..Len(fs[full]) + 1 :
           /\ FirstAt(fs[full], old, i)
           /\ ReplacedAt(fs[full], fs'[full], old, NewB, i)

\* C21: in an autonomous context run executes a model-requested edit_file
\* inline (the first occurrence is replaced, or the result is an error and
\* nothing is written), appends the result to the transcript and goes on in
\* the same budget, the execution using up the turn of the model call that
\* asked for it; run never returns a pending approval for edit_file.
C21_AutonomousEditInline ==
    /\ [][InlineEditStep =>
              /\ Len(log') \in {Len(log) + 2, Len(log) + 3}
              /\ Len(log') = Len(log) + 3 =>
                     /\ log'[Len(log')].op = "write"
                     /\ FirstReplaced(log'[Len(log')].text)
                     /\ current' = current \o
                            <<ToolResultMessage("edit_file", TextResult(FALSE, "updated"))>>
              /\ Len(log') = Len(log) + 2 =>
                     /\ fs' = fs
                     /\ \E e \in EditErrors :
                            current' = current \o <<ToolResultMessage("edit_file", e)>>
              /\ WentOn]_vars
    /\ []((context.autonomous /\ Returned /\ Pending # None) =>
              Value(Pending).tool # "edit_file")

C21_Witness ==
    /\ context.autonomous
    /\ entry = "run"
    /\ pc = "loop"
    /\ turn = 1
    /\ log = <<Event("model", "tool", << >>), Event("dispatch", "edit_file", << >>),
               Event("write", "edit_file", InFile)>>
    /\ fs[InFile] = <<"b", "b", "a">>
    /\ current[Len(current)] = ToolResultMessage("edit_file", TextResult(FALSE, "updated"))

-----------------------------------------------------------------------------
(* SpecAccess: the filesystem accesses of one call of a handler *)

\* the handlers that touch the filesystem: the four registered ones and the
\* two that run an approved call
AccessTools == {"read_file", "list_dir", "search_files", "edit_file",
                "execute_edit_file", "execute_run_terminal"}

\* what os.walk(base) yields and the handler opens: the files beneath a directory
Walked(files, base) ==
    IF base \notin Dirs THEN {}
    ELSE {f \in DOMAIN files : /\ Len(Components(base)) < Len(Components(f))
                               /\ IsPrefix(Components(base), Components(f))}

\* the paths _tool_read_file opens
read_file_io(ctx, path) ==
    LET full == safe_path(ctx.workspace_root, path)
    IN  IF ctx.workspace_root = << >> \/ full = None THEN {} ELSE {Value(full)}

\* the paths _tool_list_dir lists
list_dir_io(ctx, path) ==
    LET full == safe_path(ctx.workspace_root, IF path = << >> THEN Dot ELSE path)
    IN  IF ctx.workspace_root = << >> \/ full = None THEN {} ELSE {Value(full)}

\* the paths _tool_search_files walks and opens
search_files_io(ctx, files, pattern, path) ==
    LET base_full == safe_path(ctx.workspace_root, IF path = << >> THEN Dot ELSE path)
    IN  IF ctx.workspace_root = << >> \/ base_full = None \/ pattern = << >> THEN {}
        ELSE {Value(base_full)} \cup Walked(files, Value(base_full))

\* the paths _tool_edit_file_preview opens
edit_file_preview_io(ctx, path) ==
    LET full == safe_path(ctx.workspace_root, path)
    IN  IF ctx.workspace_root = << >> \/ full = None THEN {} ELSE {Value(full)}

\* mutant of execute_edit_file_io: the file is opened where the path leads
execute_edit_file_io_unchecked(ctx, path) ==
    {normpath(join(ctx.workspace_root, LStrip(path, Slash)))}

\* the paths _execute_edit_file opens, to read and then to write
execute_edit_file_io(ctx, path) ==
    LET full == safe_path(ctx.workspace_root, path)
    IN  IF full = None THEN {} ELSE {Value(full)}

\* the cwd _execute_run_terminal hands to subprocess.run
execute_run_terminal_io(ctx, cwd) ==
    LET root == ctx.workspace_root
        sub == safe_path(root, cwd)
    IN  {IF cwd # << >> /\ sub # None THEN Value(sub) ELSE root}

\* the paths one call of a handler touches; a call that raises on its
\* arguments never enters the handler
Touched(tool, ctx, files, args) ==
    CASE tool = "execute_edit_file" -> execute_edit_file_io(ctx, args.path)
      [] tool = "execute_run_terminal" -> execute_run_terminal_io(ctx, args.cwd)
      [] tool \in ToolNames /\ Raises(tool, args) -> {}
      [] tool = "read_file" -> read_file_io(ctx, args.path)
      [] tool = "list_dir" -> list_dir_io(ctx, args.path)
      [] tool = "search_files" -> search_files_io(ctx, files, args.pattern, args.path)
      [] tool = "edit_file" -> edit_file_preview_io(ctx, args.path)

\* the result of the call and the files after it
Outcome(tool, ctx, files, args) ==
    CASE tool = "execute_edit_file" ->
             LET e == execute_edit_file(ctx, files, args.path, args.old_string, args.new_string)
             IN  [result |-> e.result, files |-> e.files]
      [] tool = "execute_run_terminal" ->
             [result |-> execute_run_terminal(ctx, args.command, args.cwd).result, files |-> files]
      [] OTHER -> [result |-> Dispatch(ctx, files, tool, args), files |-> files]

InitAccess ==
    /\ context \in {[workspace_root |-> r, autonomous |-> FALSE] : r \in {<< >>, Root}}
    /\ fs = [p \in Files |-> FileText]
    /\ AtRest
    /\ \E t \in AccessTools, p \in HandlerPaths, o \in {<< >>, OldA} :
           probe = [fn |-> "args", tool |-> t,
                    args |-> Args(IF t = "execute_run_terminal" THEN << >> ELSE p, o, NewB, CmdLs,
                                  IF t = "execute_run_terminal" THEN p ELSE << >>, o),
                    touched |-> {}, result |-> TextResult(FALSE, "")]

\* the state after a call that touched paths and ended as out
Accessed(paths, out) ==
    /\ probe' = [probe EXCEPT !.fn = "call", !.touched = paths, !.result = out.result]
    /\ fs' = out.files

Access ==
    /\ probe.fn = "args"
    /\ Accessed(Touched(probe.tool, context, fs, probe.args),
                Outcome(probe.tool, context, fs, probe.args))
    /\ UNCHANGED <<context, LoopVars>>

NextAccess == Access

SpecAccess == InitAccess /\ [][NextAccess]_vars

\* the path the call asks for: the cwd of a command, the path of the others
\* ("." where list_dir and search_files got none)
AskedPath ==
    IF probe.tool = "execute_run_terminal" THEN probe.args.cwd
    ELSE IF probe.tool \in {"list_dir", "search_files"} /\ probe.args.path = << >> THEN Dot
    ELSE probe.args.path

\* what _safe_path answers for it
Resolved == safe_path(context.workspace_root, AskedPath)

\* a touched path is the resolved one or a file the walk found beneath it,
\* or, for a command, the root
Sandboxed(p) ==
    \/ Resolved # None /\ IsPrefix(Components(Value(Resolved)), Components(p))
    \/ probe.tool = "execute_run_terminal" /\ p = context.workspace_root

-----------------------------------------------------------------------------
(* SpecWrite: _execute_edit_file with arguments as json.loads can yield them *)

\* the characters of a new_string: one that encodes, one that does not
WriteChars == {"b", Surrogate}

InitWrite ==
    /\ context = [workspace_root |-> Root, autonomous |-> FALSE]
    /\ \E c \in Texts(EditChars, MaxContentLen) : fs = [p \in Files |-> c]
    /\ AtRest
    /\ \E p \in EditPaths, o \in Texts({"a"}, MaxArgLen), n \in Texts(WriteChars, MaxArgLen) :
           probe = [fn |-> "args", path |-> p, old_string |-> o, new_string |-> n,
                    before |-> << >>, result |-> TextResult(FALSE, ""), wrote |-> None]

ExecuteWrite ==
    /\ probe.fn = "args"
    /\ Edited(execute_edit_file(context, fs, probe.path, probe.old_string, probe.new_string))
    /\ UNCHANGED <<context, LoopVars>>

NextWrite == ExecuteWrite

SpecWrite == InitWrite /\ [][NextWrite]_vars

\* the content the edit would leave when fully applied
FullyApplied(was) == Replace1(was, probe.old_string, probe.new_string)

\* C23: after every outcome of executing an edit, a failure while reading or
\* writing included, each file holds either its original content or the
\* complete content with the first occurrence replaced, and an edit that was
\* not fully applied is reported as an error result.
C23_NoPartialWrites ==
    probe.fn = "execute_edit_file" =>
        /\ \A f \in DOMAIN fs :
               \/ fs[f] = probe.before[f]
               \/ /\ EditTarget = Some(f)
                  /\ Contains(probe.before[f], probe.old_string)
                  /\ fs[f] = FullyApplied(probe.before[f])
        /\ ~probe.result.error =>
               /\ EditTarget # None
               /\ Value(EditTarget) \in DOMAIN fs
               /\ Contains(probe.before[Value(EditTarget)], probe.old_string)
               /\ fs[Value(EditTarget)] = FullyApplied(probe.before[Value(EditTarget)])

-----------------------------------------------------------------------------
(* SpecCli: the terminal front end, main() of agent_cli.py, on run_loop *)

\* max_turns of the CLI's first call of run_loop
CliMaxTurns == 8

\* what the model answers in a CLI session: a reply, a read that goes on,
\* an edit and a command that need approval
CliResponses ==
    {Response("json", Some(Ok), None, NoArgs),
     Response("json", None, Some("read_file"), Args(<<"f">>, << >>, << >>, << >>, << >>, << >>)),
     Response("json", None, Some("edit_file"), Args(<<"f">>, OldA, NewB, << >>, << >>, << >>)),
     Response("json", None, Some("run_terminal"), Args(<< >>, << >>, << >>, CmdLs, << >>, << >>))}

\* the CLI after parse_args: messages = [], waiting at input("You: ")
InitCli ==
    /\ context \in {[workspace_root |-> Root, autonomous |-> a] : a \in BOOLEAN}
    /\ llm \in BOOLEAN
    /\ fs = [p \in Files |-> FileText]
    /\ pc = "idle"
    /\ entry = "none"
    /\ input = << >>
    /\ approved = None
    /\ current = << >>
    /\ turn = 0
    /\ max_turns = 0
    /\ ret = None
    /\ log = << >>
    /\ steps = 0
    /\ at_call = NoCall
    /\ probe = [fn |-> "cli", at |-> "input", messages |-> << >>]

\* messages.append({"role": "user", ...}); run_loop(messages, context, max_turns=8)
CliSend(line) ==
    /\ probe.at = "input"
    /\ pc = "idle"
    /\ probe' = [probe EXCEPT !.at = "run", !.messages = Append(probe.messages, line)]
    /\ entry' = "run"
    /\ approved' = None
    /\ at_call' = AtCall(fs, probe.messages, CliMaxTurns)
    /\ log' = << >>
    /\ steps' = steps + 1
    /\ EnterLoop(Append(probe.messages, line), CliMaxTurns)
    /\ UNCHANGED <<context, llm, fs>>

\* where main() is after "updated, reply, pending, error_code = run_loop(...)":
\* stopped by ValueError when the tuple has not four components, else at the
\* approval prompt for a proposal in a context that asks, else at the next input
Unpacked(result, ctx) ==
    IF Len(result) # 4 THEN "raised"
    ELSE IF result[4] = None /\ result[3] # None /\ ~ctx.autonomous THEN "prompt"
    ELSE "input"

\* the assignment that takes run_loop's result apart
CliUnpack ==
    /\ probe.at = "run"
    /\ pc = "idle"
    /\ ret # None
    /\ probe' = [probe EXCEPT !.at = Unpacked(Value(ret), context)]
    /\ UNCHANGED <<context, llm, fs, LoopVars>>

NextCli ==
    \/ \E u \in {UserMessage(FALSE)} : CliSend(u)
    \/ \E r \in CliResponses : Turn(r)
    \/ CliUnpack

SpecCli == InitCli /\ [][NextCli]_vars

\* run_loop handed the CLI a proposal in a context that asks for approval,
\* and main() has taken the result
Proposed ==
    /\ probe.at # "run"
    /\ Returned
    /\ Pending # None
    /\ ~context.autonomous

\* C24: in non-autonomous mode the CLI answers a pending proposal at its
\* approval prompt: it resumes only on 'y' or 'yes' with exactly the tool and
\* args of the proposal, and on any other answer appends 'User declined the
\* tool call.' and calls run again; so once run has handed it a proposal the
\* CLI stands at the prompt, and no write or spawn has been made.
C24_CliApprovalGate ==
    Proposed =>
        /\ probe.at = "prompt"
        /\ Effects = {}

-----------------------------------------------------------------------------
(* SpecHttp: the endpoints /chat and /execute-pending on the core's result *)

\* status.HTTP_503_SERVICE_UNAVAILABLE
HTTP_503_SERVICE_UNAVAILABLE == 503

\* status.HTTP_400_BAD_REQUEST
HTTP_400_BAD_REQUEST == 400

\* status.HTTP_408_REQUEST_TIMEOUT
HTTP_408_REQUEST_TIMEOUT == 408

\* the status of a returned AgentChatResponse
HTTP_200_OK == 200

ErrorCodes == {"no_llm_configured", "workspace_not_allowed", "agent_timeout"}

\* what an endpoint hands to the framework: a response with a status, or an
\* exception that no handler of the endpoint catches
HttpResponse(status, type, detail, reply, messages, pending_approval) ==
    [raised |-> "", status |-> Some(status), type |-> type, detail |-> detail,
     reply |-> reply, messages |-> messages, pending_approval |-> pending_approval]

Unhandled(exception) ==
    [raised |-> exception, status |-> None, type |-> "", detail |-> << >>,
     reply |-> None, messages |-> << >>, pending_approval |-> None]

\* _error_response(error_code, detail, status_code)
error_response(error_code, detail, status_code) ==
    HttpResponse(status_code, error_code, detail, None, << >>, None)

\* _pending_to_schema(p) if pending else None
pending_to_schema(p) ==
    IF p = None \/ Value(p).tool = "" THEN None
    ELSE Some([tool |-> Value(p).tool, args |-> Value(p).args, preview |-> Value(p).preview])

\* reply or default
ReplyOr(reply, default) ==
    IF reply = None \/ Value(reply) = << >> THEN default ELSE Value(reply)

\* AgentChatResponse(reply=..., messages=..., pending_approval=...)
AgentChatResponse(result) ==
    HttpResponse(HTTP_200_OK, "", << >>, result[2], result[1], pending_to_schema(result[3]))

\* agent_chat after run_loop returned result: the unpacking wants four
\* components, and an error is raised as if a response were an exception
agent_chat(result) ==
    IF Len(result) # 4 THEN Unhandled("ValueError")
    ELSE IF result[4] # None /\ Value(result[4]) \in ErrorCodes THEN Unhandled("TypeError")
    ELSE AgentChatResponse(result)

\* execute_pending after execute_pending_and_continue returned result
execute_pending(result) ==
    IF Len(result) # 4 THEN Unhandled("ValueError")
    ELSE IF result[4] = Some("no_llm_configured")
    THEN error_response("no_llm_configured", ReplyOr(result[2], <<"No LLM configured.">>),
                        HTTP_503_SERVICE_UNAVAILABLE)
    ELSE IF result[4] = Some("workspace_not_allowed")
    THEN error_response("workspace_not_allowed", ReplyOr(result[2], <<"Workspace not allowed.">>),
                        HTTP_400_BAD_REQUEST)
    ELSE IF result[4] = Some("agent_timeout")
    THEN error_response("agent_timeout", ReplyOr(result[2], <<"Agent timed out.">>),
                        HTTP_408_REQUEST_TIMEOUT)
    ELSE AgentChatResponse(result)

\* the transcripts, replies and proposals of a result
HttpTranscripts == {<<UserMessage(FALSE)>>, <<SystemPrompt, UserMessage(FALSE)>>}

HttpReplies == {None, Some(Ok), Some(NoLLMReply)}

HttpPendings ==
    {None,
     Some(PendingResult("edit_file", Args(<<"f">>, OldA, NewB, << >>, << >>, << >>),
                        FALSE, <<"unified_diff">>, FileText, <<"b", "b", "a">>))}

\* what the core hands back: the three components run_loop and
\* execute_pending_and_continue return, or the four the endpoints unpack
CoreResults ==
    {<<m, r, p>> : m \in HttpTranscripts, r \in HttpReplies, p \in HttpPendings}
    \cup {<<m, r, p, e>> : m \in HttpTranscripts, r \in HttpReplies, p \in HttpPendings,
                           e \in {None} \cup {Some(c) : c \in ErrorCodes}}

InitHttp ==
    /\ context = [workspace_root |-> Root, autonomous |-> FALSE]
    /\ fs = [p \in Files |-> FileText]
    /\ AtRest
    /\ \E ep \in {"chat", "execute-pending"}, res \in CoreResults :
           probe = [fn |-> "args", endpoint |-> ep, result |-> res,
                    response |-> Unhandled("")]

\* the endpoint answers
Respond ==
    /\ probe.fn = "args"
    /\ probe' = [probe EXCEPT !.fn = "respond",
                              !.response = IF probe.endpoint = "chat"
                                           THEN agent_chat(probe.result)
                                           ELSE execute_pending(probe.result)]
    /\ UNCHANGED <<context, fs, LoopVars>>

NextHttp == Respond

SpecHttp == InitHttp /\ [][NextHttp]_vars

\* the errorCode of the core's result: null when it has none
ErrorCodeOf(result) == IF Len(result) = 4 THEN result[4] ELSE None

\* the status the spec gives an error code
StatusOf(code) ==
    CASE code = "no_llm_configured" -> 503
      [] code = "workspace_not_allowed" -> 400
      [] code = "agent_timeout" -> 408

\* C25: both endpoints turn the core's errorCode into an HTTP error response
\* (no_llm_configured 503, workspace_not_allowed 400, agent_timeout 408, each
\* with a detail message and the code as type), and with errorCode null they
\* return 200 with reply, messages and pending_approval.
C25_ErrorCodeToStatus ==
    probe.fn = "respond" =>
        LET code == ErrorCodeOf(probe.result)
            resp == probe.response
        IN  /\ resp.raised = ""
            /\ code # None =>
                   /\ resp.status = Some(StatusOf(Value(code)))
                   /\ resp.type = Value(code)
                   /\ resp.detail # << >>
            /\ code = None =>
                   /\ resp.status = Some(200)
                   /\ resp.reply = probe.result[2]
                   /\ resp.messages = probe.result[1]
                   /\ (resp.pending_approval = None) <=> (probe.result[3] = None)

-----------------------------------------------------------------------------
(* SpecExtract: _extract_json_object on a model text, then json.loads *)

Whitespace == {" ", "\n"}

Quote == "\""

\* raw.strip()
RECURSIVE StripWs(_)
StripWs(s) ==
    IF s # << >> /\ Head(s) \in Whitespace THEN StripWs(Tail(s))
    ELSE IF s # << >> /\ s[Len(s)] \in Whitespace THEN StripWs(SubSeq(s, 1, Len(s) - 1))
    ELSE s

\* s.rfind(ch) + 1
RFind(s, ch) ==
    LET hits == {i \in 1..Len(s) : s[i] = ch}
    IN  IF hits = {} THEN 0 ELSE CHOOSE i \in hits : \A j \in hits : j <= i

\* the for loop of _extract_json_object from position i with the depth so
\* far: the position where the depth comes back to 0, 0 when it never does
RECURSIVE MatchingBrace(_, _, _)
MatchingBrace(raw, i, depth) ==
    IF i > Len(raw) THEN 0
    ELSE IF raw[i] = "{" THEN MatchingBrace(raw, i + 1, depth + 1)
    ELSE IF raw[i] = "}"
    THEN IF depth - 1 = 0 THEN i ELSE MatchingBrace(raw, i + 1, depth - 1)
    ELSE MatchingBrace(raw, i + 1, depth)

\* _extract_json_object(raw)
extract_json_object(text) ==
    LET raw == StripWs(text)
        start == Find(raw, <<"{">>)
        close == MatchingBrace(raw, start, 0)
        end == RFind(raw, "}")
    IN  IF start = 0 THEN << >>
        ELSE IF close # 0 THEN SubSeq(raw, start, close)
        ELSE IF end # 0 /\ end > start THEN SubSeq(raw, start, end)
        ELSE << >>

\* JSON values: a string, or an object of (key, value) pairs
JStr(s) == [kind |-> "str", text |-> s, pairs |-> << >>]

JObj(pairs) == [kind |-> "obj", text |-> << >>, pairs |-> pairs]

Pair(k, v) == [key |-> k, val |-> v]

\* the text of a JSON value, as json.dumps writes it
RECURSIVE Dumps(_)
Dumps(v) ==
    IF v.kind = "str" THEN <<Quote>> \o v.text \o <<Quote>>
    ELSE IF v.pairs = << >> THEN <<"{", "}">>
    ELSE <<"{", Quote>> \o v.pairs[1].key \o <<Quote, ":", " ">>
             \o Dumps(v.pairs[1].val) \o <<"}">>

\* the scanner of json.loads: what it found from a position, and where it stopped
Parsed(val, next) == [ok |-> TRUE, val |-> val, next |-> next]

NotParsed == [ok |-> FALSE, val |-> JStr(<< >>), next |-> 0]

RECURSIVE SkipWs(_, _)
SkipWs(t, i) == IF i <= Len(t) /\ t[i] \in Whitespace THEN SkipWs(t, i + 1) ELSE i

\* a string literal at position i (the texts drawn hold no backslash)
ParseString(t, i) ==
    IF i > Len(t) \/ t[i] # Quote THEN NotParsed
    ELSE LET closes == {j \in (i + 1)..Len(t) : t[j] = Quote}
         IN  IF closes = {} THEN NotParsed
             ELSE LET j == CHOOSE k \in closes : \A m \in closes : k <= m
                  IN  IF \E m \in (i + 1)..(j - 1) : t[m] = "\n" THEN NotParsed
                      ELSE Parsed(JStr(SubSeq(t, i + 1, j - 1)), j + 1)

\* a string or an object of at most one pair at position i
RECURSIVE ParseValue(_, _)
ParseValue(t, i) ==
    IF i > Len(t) THEN NotParsed
    ELSE IF t[i] = Quote THEN ParseString(t, i)
    ELSE IF t[i] # "{" THEN NotParsed
    ELSE LET a == SkipWs(t, i + 1)
         IN  IF a <= Len(t) /\ t[a] = "}" THEN Parsed(JObj(<< >>), a + 1)
             ELSE LET k == ParseString(t, a)
                  IN  IF ~k.ok THEN NotParsed
                      ELSE LET c == SkipWs(t, k.next)
                           IN  IF c > Len(t) \/ t[c] # ":" THEN NotParsed
                               ELSE LET v == ParseValue(t, SkipWs(t, c + 1))
                                    IN  IF ~v.ok THEN NotParsed
                                        ELSE LET e == SkipWs(t, v.next)
                                             IN  IF e > Len(t) \/ t[e] # "}" THEN NotParsed
                                                 ELSE Parsed(JObj(<<Pair(k.val.text, v.val)>>), e + 1)

\* json.loads(text): the value, None when it raises
loads(text) ==
    LET v == ParseValue(text, SkipWs(text, 1))
    IN  IF v.ok /\ SkipWs(text, v.next) = Len(text) + 1 THEN Some(v.val) ELSE None

\* longest string value drawn for an object
MaxStrLen == 2

\* the characters of a string value: a letter and the two braces
StrChars == {"a", "{", "}"}

\* the objects a model writes: {"r": s} and {"r": {"r": s}}
Objects ==
    {JObj(<<Pair(<<"r">>, JStr(s))>>) : s \in Texts(StrChars, MaxStrLen)}
    \cup {JObj(<<Pair(<<"r">>, JObj(<<Pair(<<"r">>, JStr(s))>>))>>) : s \in Texts(StrChars, MaxStrLen)}

\* what stands before the object: nothing, whitespace, a markdown fence
\* (written with tildes), prose
Before == {<< >>, <<" ">>, <<"~", "~", "~", "j", "s", "o", "n", "\n">>, <<"o", "k", " ">>}

\* what stands after it
After == {<< >>, <<"\n">>, <<"\n", "~", "~", "~">>, <<" ", "o", "k">>}

InitExtract ==
    /\ context = [workspace_root |-> Root, autonomous |-> FALSE]
    /\ fs = [p \in Files |-> FileText]
    /\ AtRest
    /\ \E o \in {None} \cup {Some(x) : x \in Objects}, b \in Before, a \in After :
           probe = [fn |-> "args", object |-> o,
                    raw |-> b \o (IF o = None THEN << >> ELSE Dumps(Value(o))) \o a,
                    span |-> << >>, data |-> None]

\* json_str = _extract_json_object(raw); data = json.loads(json_str)
Extract ==
    /\ probe.fn = "args"
    /\ probe' = [probe EXCEPT !.fn = "extract",
                              !.span = extract_json_object(probe.raw),
                              !.data = loads(extract_json_object(probe.raw))]
    /\ UNCHANGED <<context, fs, LoopVars>>

NextExtract == Extract

SpecExtract == InitExtract /\ [][NextExtract]_vars

\* C26: _extract_json_object returns the empty string for a text without
\* '{', and for a text that is one valid JSON object surrounded by whitespace,
\* a markdown fence or prose, the span it returns parses to that object.
C26_ExtractParses ==
    probe.fn = "extract" =>
        /\ ~Contains(probe.raw, <<"{">>) => probe.span = << >>
        /\ probe.object # None => probe.data = probe.object

-----------------------------------------------------------------------------
(* SpecAllow: _validate_workspace_allowed of the workspace API *)

\* _validate_workspace_allowed(workspace_root), with allowed standing for
\* settings.WORKSPACE_ALLOWED_ROOTS
validate_workspace_allowed(allowed, workspace_root) ==
    IF allowed = << >> THEN TRUE
    ELSE \E i \in DOMAIN allowed :
             /\ allowed[i] # << >>
             /\ StartsWith(abspath(workspace_root), abspath(allowed[i]))

\* the allow-lists of a deployment: none, one root, two roots, an empty entry
AllowLists == {<< >>, <<Root>>, <<Root, <<Slash, "e", Slash>>>>, <<<< >>>>}

InitAllow ==
    /\ context = [workspace_root |-> << >>, autonomous |-> FALSE]
    /\ fs = [p \in Files |-> FileText]
    /\ AtRest
    /\ \E a \in AllowLists, root \in Texts(PathChars, MaxPathLen) :
           probe = [fn |-> "args", allowed |-> a, root |-> root, out |-> FALSE]

Validate ==
    /\ probe.fn = "args"
    /\ probe' = [probe EXCEPT !.fn = "validate_workspace_allowed",
                              !.out = validate_workspace_allowed(probe.allowed, probe.root)]
    /\ UNCHANGED <<context, fs, LoopVars>>

NextAllow == Validate

SpecAllow == InitAllow /\ [][NextAllow]_vars

\* the root is an allowed directory or lies under one
UnderAllowed(allowed, root) ==
    \E i \in DOMAIN allowed :
        /\ allowed[i] # << >>
        /\ IsPrefix(Components(abspath(allowed[i])), Components(abspath(root)))

\* C27: _validate_workspace_allowed(root) is true for every root when the
\* allow-list is empty; otherwise it is true exactly when abs(root) is an
\* allowed directory or lies under one, and false for every directory outside
\* all allowed roots, a sibling of an allowed root included.
\* (Roots whose absolute form begins with exactly two slashes, which POSIX
\* leaves to the implementation, are set aside.)
C27_AllowListContainment ==
    (/\ probe.fn = "validate_workspace_allowed"
     /\ ~StartsWith(abspath(probe.root), <<Slash, Slash>>)) =>
        IF probe.allowed = << >> THEN probe.out
        ELSE probe.out <=> UnderAllowed(probe.allowed, probe.root)

-----------------------------------------------------------------------------
(* Reply or proposal, under Spec *)

\* the answers of the model that hold a non-empty reply
Replying == {r \in Responses : r.kind = "json" /\ r.reply # None /\ Value(r.reply) # << >>}

\* C28: every return of run and of resume carries exactly one of reply and
\* pending: a reply comes with pending = null and a proposal with reply =
\* null; and a model object with a non-empty reply is returned as that reply
\* (stripped) without any dispatch, write or spawn, also when it names a tool.
C28_ReplyXorPending ==
    /\ [](Returned => ((Reply = None) <=> (Pending # None)))
    /\ [][\A r \in Replying :
              Turn(r) => /\ ret' = Some(<<current, Some(Strip(Value(r.reply))), None>>)
                         /\ log' = log \o called("reply")
                         /\ fs' = fs]_vars

\* a resume whose loop ended with a new proposal: no reply comes with it
C28_Witness ==
    /\ Returned
    /\ entry = "resume"
    /\ Reply = None
    /\ Pending # None
    /\ Value(Pending).tool = "run_terminal"
    /\ log # << >>
    /\ log[Len(log)] = Event("dispatch", "run_terminal", << >>)

-----------------------------------------------------------------------------
(* SpecTyped: run_loop on model objects whose members are of any JSON type *)

\* the JSON type of a member of the model's object; "none" when it is absent
JsonTypes == {"none", "str", "num", "list", "dict"}

\* a model output: the response as run_loop reads it when every member has
\* the type the prompt asks for, and the types the members really have
\* (a num is non-zero and a list non-empty: both are truthy)
Output(resp, reply_type, tool_type, args_type) ==
    [resp |-> resp, reply_type |-> reply_type, tool_type |-> tool_type,
     args_type |-> args_type]

\* an output with members of the types asked for
WellTyped(resp) ==
    Output(resp,
           IF resp.reply = None THEN "none" ELSE "str",
           IF resp.tool = None THEN "none" ELSE "str",
           IF resp.tool = None THEN "none" ELSE "dict")

PathArgs(p) == Args(p, << >>, << >>, << >>, << >>, << >>)

Outputs ==
    {WellTyped(r) : r \in
         {Response("empty", None, None, NoArgs),
          Response("text", None, None, NoArgs),
          Response("garbled", None, None, NoArgs),
          Response("badjson", None, None, NoArgs),
          Response("json", Some(Ok), None, NoArgs),
          Response("json", None, Some("bogus"), NoArgs),
          Response("json", None, Some("read_file"), PathArgs(<<"f">>)),
          Response("json", None, Some("edit_file"), Args(<<"f">>, OldA, NewB, << >>, << >>, << >>))}}
    \cup {Output(Response("json", None, None, NoArgs), t, "none", "none") : t \in {"num", "list"}}
    \cup {Output(Response("json", None, None, NoArgs), "none", t, "none") : t \in {"num", "list", "dict"}}
    \cup {Output(Response("json", None, Some(n), NoArgs), "none", "str", t) :
              n \in {"read_file", "edit_file", "suggest_questions", "generate_app"},
              t \in {"str", "num", "list"}}

\* the exception that leaves run_loop on this output, "" when none does:
\* (reply or "").strip() of a non-string, 'tool_name not in tool_map' of an
\* unhashable name, '"messages" not in args' / 'args["messages"] = ...' of
\* args that are no dict
Escaping(out) ==
    IF out.resp.kind # "json" THEN ""
    ELSE IF out.reply_type \notin {"none", "str"} THEN "AttributeError"
    ELSE IF out.reply_type = "str" /\ Value(out.resp.reply) # << >> THEN ""
    ELSE IF out.tool_type \in {"list", "dict"} THEN "TypeError"
    ELSE IF out.tool_type # "str" \/ Value(out.resp.tool) \notin ToolNames THEN ""
    ELSE IF Value(out.resp.tool) \in {"suggest_questions", "generate_app"}
            /\ out.args_type \notin {"none", "dict"} THEN "TypeError"
    ELSE ""

\* one iteration of run_loop's for on an output that lets no exception escape
IterationTyped(ctx, files, out) ==
    IF out.resp.kind = "json" /\ out.reply_type = "none" /\ out.tool_type = "num"
    THEN Continues(InvalidToolMessage(Some("5")), files, called("invalid"))
    ELSE IF /\ out.resp.kind = "json" /\ out.reply_type = "none" /\ out.tool_type = "str"
            /\ Value(out.resp.tool) \in ToolNames
            /\ out.args_type \notin {"none", "dict"}
    THEN Continues(ToolResultMessage(Value(out.resp.tool), TextResult(TRUE, "str(e)")), files,
                   called("tool") \o <<Event("dispatch", Value(out.resp.tool), <<"raised">>)>>)
    ELSE Iteration(ctx, files, out.resp)

\* the exception leaves run_loop: the call ends without a result
Raised(exception) ==
    /\ pc' = "raised"
    /\ log' = log \o called(exception)
    /\ UNCHANGED <<fs, current, turn, ret>>

\* one iteration of the loop of the call in progress, on any output
TurnTyped(out) ==
    /\ pc = "loop"
    /\ IF Escaping(out) # "" THEN Raised(Escaping(out))
       ELSE Advance(IterationTyped(context, fs, out))
    /\ input' = CallerList(input, current')
    /\ UNCHANGED <<context, llm, entry, approved, max_turns, steps, at_call, probe>>

NextTyped ==
    \/ \E m \in {UserMessage(FALSE)}, b \in 0..MaxTurns : Run(m, b)
    \/ \E o \in Outputs : TurnTyped(o)

SpecTyped == Init /\ [][NextTyped]_vars

\* C29: run never raises to its caller, whatever the model returns (empty
\* text, no JSON, unbalanced braces, an object whose 'tool' is no string or
\* whose 'args' is no object): a call of run is in its loop or has returned
\* its result with a reply or a pending approval.
C29_RunNeverRaises ==
    entry = "run" =>
        \/ pc = "loop"
        \/ /\ Returned
           /\ (Reply # None \/ Pending # None)

-----------------------------------------------------------------------------
(* Approval of a tool that has no side effect, under Spec *)

\* a step that begins a resume for a tool other than edit_file and run_terminal
ResumeOther ==
    /\ pc = "idle"
    /\ steps' > steps
    /\ entry' = "resume"
    /\ Value(approved').tool \notin {"edit_file", "run_terminal"}

\* the message the resume appends for it
UnknownToolMessage == ApprovedMessage(Value(approved).tool, TextResult(TRUE, "Unknown tool"))

\* C30: resume executes a side effect only for edit_file and run_terminal:
\* for any other approved tool it writes no file and spawns no process,
\* appends a system message recording an 'Unknown tool' error to the given
\* transcript, and still goes into the main loop (which answers at once only
\* where no model is configured or the budget is 0).
C30_UnknownToolNoEffect ==
    /\ [][ResumeOther =>
              /\ fs' = fs
              /\ log' = << >>
              /\ current'[Len(current')] = UnknownToolMessage'
              /\ \A i \in 1..Len(Held) : current'[Len(current') - Len(Held) - 1 + i] = Held[i]
              /\ IF llm /\ max_turns' > 0 THEN pc' = "loop" /\ turn' = 0
                 ELSE /\ pc' = "idle"
                      /\ Value(ret')[2] = Some(IF llm THEN TurnLimitReply ELSE NoLLMReply)]_vars
    /\ []((entry = "resume" /\ Value(approved).tool \notin {"edit_file", "run_terminal"})
              => Unrequested = {})

\* the loop of a resume for suggest_questions is about to call the model:
\* nothing was written or spawned, the error message ends the transcript
C30_Witness ==
    /\ entry = "resume"
    /\ Value(approved).tool = "suggest_questions"
    /\ pc = "loop"
    /\ turn = 0
    /\ log = << >>
    /\ fs = [p \in Files |-> FileText]
    /\ current[Len(current)] = UnknownToolMessage

====
